---- MODULE Spec2Model ----
(***************************************************************************)
(* Model of app/main.py: a FastAPI gateway in front of an Ollama server.   *)
(*                                                                         *)
(*   Spec        one /chat request (_chat_full) and one /stream request    *)
(*               (_chat_stream) served against the same scripted upstream  *)
(*               generate call; the upstream script (lines, then           *)
(*               end-of-stream or a transport failure) is the input.       *)
(*   SpecParams  one request (GET /chat, POST /chat or GET /stream) whose  *)
(*               generation parameters are the input, served against a     *)
(*               one-line upstream script.                                 *)
(*   SpecModels  GET /models and GET /health against a scripted upstream   *)
(*               tags call.                                                *)
(*                                                                         *)
(* Texts are sequences of one-character strings, so that "".join is        *)
(* sequence concatenation.  temperature and top_p are kept in tenths       *)
(* (0.7 is 7); float() of a float and int() of an int change nothing.      *)
(* An optional value is a sequence of length 0 or 1.                       *)
(***************************************************************************)
EXTENDS Integers, Sequences, FiniteSets, TLC

VARIABLES
    lines,      \* upstream generate script: the lines iter_lines() delivers
    ending,     \* upstream generate script: how the call ends
    freq,       \* the /chat request (<<>> or <<request>>)
    fpc,        \* /chat: "idle", "reading", "done"
    fargs,      \* /chat: arguments _chat_full was called with
    fpayload,   \* /chat: payload handed to requests.post
    fnext,      \* /chat: number of upstream lines read
    chunks,     \* /chat: the list `chunks`
    fconn,      \* /chat: upstream connection "none", "open", "released"
    fout,       \* /chat: what the caller gets (<<>> until the request is over)
    sreq,       \* the /stream request (<<>> or <<request>>)
    spc,        \* /stream: "idle", "created", "reading", "yielded",
                \*          "notice", "ended", "crashed", "closed"
    sargs,      \* /stream: arguments _chat_stream was called with
    spayload,   \* /stream: payload handed to requests.post
    snext,      \* /stream: number of upstream lines read
    emitted,    \* /stream: fragments yielded so far, in order
    sconn,      \* /stream: upstream connection
    sexc,       \* /stream: exception that left the generator (<<>> if none)
    tags,       \* upstream tags script
    mout,       \* GET /models: what the caller gets
    hout        \* GET /health: what the caller gets

chatVars   == <<freq, fpc, fargs, fpayload, fnext, chunks, fconn, fout>>
streamVars == <<sreq, spc, sargs, spayload, snext, emitted, sconn, sexc>>
tagVars    == <<tags, mout, hout>>
vars       == <<lines, ending, chatVars, streamVars, tagVars>>

(* ------------------------------ bounds -------------------------------- *)

MaxLines  == 2      \* upstream lines per generate call
MaxModels == 2      \* entries of the upstream "models" list

(* ------------------------- sequences of length <= n -------------------- *)

SeqUpTo(S, n) == UNION { [1..k -> S] : k \in 0..n }

RECURSIVE Concat(_)
Concat(ss) == IF ss = <<>> THEN <<>> ELSE Head(ss) \o Concat(Tail(ss))

RECURSIVE ConcatRev(_)
ConcatRev(ss) == IF ss = <<>> THEN <<>> ELSE ConcatRev(Tail(ss)) \o Head(ss)

(* --------------------------- upstream lines --------------------------- *)
(* A line as iter_lines() yields it (bytes).  k is what the bytes are:     *)
(* "empty" (b""), "badutf8" (not valid UTF-8), "notjson" (text that is not *)
(* JSON) or "json".  For JSON, t is the type of the value; has says        *)
(* whether `"response" in value` is true (a key of an object, a substring  *)
(* of a string, an element of a list); str and s are the value stored      *)
(* under the key "response" of an object: a text s, or a non-text (null).  *)

Ln(k, t, has, str, s) == [k |-> k, t |-> t, has |-> has, str |-> str, s |-> s]

EmptyLine   == Ln("empty",   "-", FALSE, FALSE, <<>>)
BadUtf8Line == Ln("badutf8", "-", FALSE, FALSE, <<>>)
NotJsonLine == Ln("notjson", "-", FALSE, FALSE, <<>>)
ObjText(s)  == Ln("json", "object", TRUE,  TRUE,  s)
ObjNonText  == Ln("json", "object", TRUE,  FALSE, <<>>)
ObjNoResp   == Ln("json", "object", FALSE, FALSE, <<>>)
NumberLine  == Ln("json", "number", FALSE, FALSE, <<>>)
NullLine    == Ln("json", "null",   FALSE, FALSE, <<>>)
StrLine(h)  == Ln("json", "string", h,     FALSE, <<>>)
ArrLine(h)  == Ln("json", "array",  h,     FALSE, <<>>)

FragTexts == { <<>>, <<"a">>, <<"b">> }

LineSet ==
    { EmptyLine, BadUtf8Line, NotJsonLine, ObjNonText, ObjNoResp,
      NumberLine, NullLine }
    \cup { ObjText(s) : s \in FragTexts }
    \cup { StrLine(h) : h \in BOOLEAN }
    \cup { ArrLine(h) : h \in BOOLEAN }

(* A Python value that a fragment can be: a text, or a non-text.           *)
Val(str, s) == [str |-> str, s |-> s]
Text(s)     == Val(TRUE, s)

(* ------------------------- Python exceptions -------------------------- *)
(* The classes an exception is an instance of: requests.exceptions for the *)
(* transport, json and the builtins for the processing of a line.          *)

Bases(exc) ==
    CASE exc = "ConnectTimeout"       -> {"ConnectTimeout", "ConnectionError", "Timeout", "RequestException"}
      [] exc = "ReadTimeout"          -> {"ReadTimeout", "Timeout", "RequestException"}
      [] exc = "ConnectionError"      -> {"ConnectionError", "RequestException"}
      [] exc = "HTTPError"            -> {"HTTPError", "RequestException"}
      [] exc = "ChunkedEncodingError" -> {"ChunkedEncodingError", "RequestException"}
      [] exc = "RequestsJSONDecodeError" -> {"RequestsJSONDecodeError", "InvalidJSONError",
                                             "RequestException", "JSONDecodeError", "ValueError"}
      [] exc = "JSONDecodeError"      -> {"JSONDecodeError", "ValueError"}
      [] exc = "UnicodeDecodeError"   -> {"UnicodeDecodeError", "ValueError"}
      [] OTHER                        -> {exc}

IsInstance(exc, cls) == cls \in Bases(exc)

(* ------------------------ upstream generate call ---------------------- *)
(* How the scripted upstream ends the call.  Before any line: the connect  *)
(* times out, the connection is refused, no response head arrives within   *)
(* the read timeout, or the status is not 2xx.  After the script's lines:  *)
(* end of stream, the body stalls beyond the read timeout, or the          *)
(* connection breaks.                                                      *)

EarlyEndings == {"connect_timeout", "refused", "header_timeout", "bad_status"}
LateEndings  == {"eof", "stall", "broken"}

(* requests.post(..., timeout=SESSION_TIMEOUT): the exception it raises.   *)
PostRaises(e) ==
    CASE e = "connect_timeout" -> <<"ConnectTimeout">>
      [] e = "refused"         -> <<"ConnectionError">>
      [] e = "header_timeout"  -> <<"ReadTimeout">>
      [] OTHER                 -> <<>>

(* r.raise_for_status()                                                    *)
RaiseForStatus(e) == IF e = "bad_status" THEN <<"HTTPError">> ELSE <<>>

(* r.iter_lines() once the script's lines are delivered: StopIteration     *)
(* (<<>>) or the exception Response.iter_content raises; it re-raises      *)
(* urllib3's ReadTimeoutError as requests.exceptions.ConnectionError and   *)
(* its ProtocolError as ChunkedEncodingError.                              *)
IterLinesRaises(e) ==
    CASE e = "stall"  -> <<"ConnectionError">>
      [] e = "broken" -> <<"ChunkedEncodingError">>
      [] OTHER        -> <<>>

(* `with requests.post(...) as r:` left, by any way: Response.__exit__     *)
(* closes the response.                                                    *)
WithExitLeak(conn) == conn
WithExit(conn) == IF conn = "open" THEN "released" ELSE conn

(* ------------------------- processing of a line ----------------------- *)

Res(act, v, exc) == [act |-> act, v |-> v, exc |-> exc]
Skip       == Res("skip",  Text(<<>>), "-")
Take(v)    == Res("take",  v,          "-")
Raise(exc) == Res("raise", Text(<<>>), exc)

(* line.decode("utf-8")                                                    *)
PyDecode(line) == IF line.k = "badutf8" THEN <<"UnicodeDecodeError">> ELSE <<>>

(* json.loads(text)                                                        *)
JsonLoads(line) == IF line.k = "notjson" THEN <<"JSONDecodeError">> ELSE <<>>

(* "response" in obj: a TypeError for a value that is no container.        *)
PyIn(line) ==
    IF line.t \in {"number", "null"} THEN "TypeError"
    ELSE IF line.has THEN "True" ELSE "False"

(* obj["response"]: a str or a list takes integer indices only.            *)
PyGetItem(line) ==
    IF line.t = "object" THEN Take(Val(line.str, line.s)) ELSE Raise("TypeError")

(* _chat_full, the body of the inner try.                                  *)
FullTryBody(line) ==
    IF PyDecode(line) # <<>> THEN Raise(PyDecode(line)[1])
    ELSE IF JsonLoads(line) # <<>> THEN Raise(JsonLoads(line)[1])
    ELSE IF PyIn(line) = "TypeError" THEN Raise("TypeError")
    ELSE IF PyIn(line) = "True" THEN PyGetItem(line)
    ELSE Skip

(* _chat_full, one turn of `for line in r.iter_lines()`.                   *)
FullProcessLine(line) ==
    IF line.k = "empty" THEN Skip
    ELSE LET r == FullTryBody(line) IN
         IF r.act = "raise" /\ IsInstance(r.exc, "JSONDecodeError") THEN Skip ELSE r

(* _chat_stream, the body of the inner try.                                *)
StreamTryBody(line) ==
    IF PyDecode(line) # <<>> THEN Raise(PyDecode(line)[1])
    ELSE IF JsonLoads(line) # <<>> THEN Raise(JsonLoads(line)[1])
    ELSE IF PyIn(line) = "TypeError" THEN Raise("TypeError")
    ELSE IF PyIn(line) = "True" THEN PyGetItem(line)
    ELSE Skip

(* _chat_stream, one turn of `for line in r.iter_lines()`.                 *)
StreamProcessLine(line) ==
    IF line.k = "empty" THEN Skip
    ELSE LET r == StreamTryBody(line) IN
         IF r.act = "raise" /\ IsInstance(r.exc, "JSONDecodeError") THEN Skip ELSE r

(* "".join(chunks): a TypeError when an item is not a str.                 *)
Texts(vs) == [i \in 1..Len(vs) |-> vs[i].s]
JoinReversed(vs) ==
    IF \A i \in 1..Len(vs) : vs[i].str THEN <<ConcatRev(Texts(vs))>> ELSE <<>>
Join(vs) ==
    IF \A i \in 1..Len(vs) : vs[i].str THEN <<Concat(Texts(vs))>> ELSE <<>>

(* yield v                                                                 *)
YieldFirst(out, v) == <<v>> \o out
Yield(out, v) == Append(out, v)

(* ----------------------------- parameters ----------------------------- *)
(* A parameter as the request carries it: absent, null, or given as v.     *)

Raw(p, v) == [p |-> p, v |-> v]

Args(prompt, model, temperature, top_p, max_tokens) ==
    [prompt |-> prompt, model |-> model, temperature |-> temperature,
     top_p |-> top_p, max_tokens |-> max_tokens]

(* class ChatIn: the field of the parsed body, None being <<>>.            *)
ChatInDefaults ==
    [model |-> "phi3:mini", temperature |-> 7, top_p |-> 9, max_tokens |-> 512]

ChatInField(raw, default) ==
    CASE raw.p = "absent" -> <<default>>
      [] raw.p = "null"   -> <<>>
      [] OTHER            -> <<raw.v>>

ChatIn(req) ==
    [prompt      |-> req.prompt,
     model       |-> ChatInField(req.model, ChatInDefaults.model),
     temperature |-> ChatInField(req.temperature, ChatInDefaults.temperature),
     top_p       |-> ChatInField(req.top_p, ChatInDefaults.top_p),
     max_tokens  |-> ChatInField(req.max_tokens, ChatInDefaults.max_tokens)]

(* x or d, for a str and for a number                                      *)
OrStr(x, d) == IF x = <<>> \/ x[1] = "" THEN d ELSE x[1]
OrNumNoneOnly(x, d) == IF x = <<>> THEN d ELSE x[1]
OrNum(x, d) == IF x = <<>> \/ x[1] = 0 THEN d ELSE x[1]

(* chat_post: the arguments it passes to _chat_full                        *)
ChatPostArgs(req) ==
    LET body == ChatIn(req) IN
    Args(body.prompt,
         OrStr(body.model, "phi3:mini"),
         OrNum(body.temperature, 7),
         OrNum(body.top_p, 9),
         OrNum(body.max_tokens, 512))

(* A query parameter of a GET route: its default when the query lacks it.  *)
QueryParam(raw, default) == IF raw.p = "given" THEN raw.v ELSE default

(* chat_get: the arguments it passes to _chat_full                         *)
ChatGetArgs(req) ==
    Args(req.prompt,
         QueryParam(req.model, "phi3:mini"),
         QueryParam(req.temperature, 7),
         QueryParam(req.top_p, 9),
         QueryParam(req.max_tokens, 512))

(* stream_get: the arguments it passes to _chat_stream                     *)
StreamGetArgs(req) ==
    Args(req.prompt,
         QueryParam(req.model, "phi3:mini"),
         QueryParam(req.temperature, 7),
         QueryParam(req.top_p, 9),
         QueryParam(req.max_tokens, 512))

(* _make_payload                                                           *)
MakePayload(a) ==
    [model |-> a.model, prompt |-> a.prompt,
     options |-> [temperature |-> a.temperature, top_p |-> a.top_p,
                  num_predict |-> a.max_tokens]]


(* ------------------------- what the caller gets ------------------------ *)

(* _chat_full returned: the AggregatedResult, served with status 200.      *)
Result(a, text) ==
    [kind |-> "result", status |-> 200, echo |-> <<a>>, response |-> <<text>>,
     detail |-> <<>>]

(* raise HTTPException(status_code=..., detail=...)                        *)
HTTPException(status, detail) ==
    [kind |-> "http_error", status |-> status, echo |-> <<>>, response |-> <<>>,
     detail |-> detail]

(* An exception no handler takes: the server answers 500.                  *)
Uncaught(exc) ==
    [kind |-> "uncaught", status |-> 500, echo |-> <<>>, response |-> <<>>,
     detail |-> <<exc>>]

(* _chat_full, its except clauses                                          *)
FullExcept(exc) ==
    IF IsInstance(exc, "Timeout")
    THEN HTTPException(504, <<"Timeout talking to Ollama">>)
    ELSE IF IsInstance(exc, "RequestException")
    THEN HTTPException(502, <<"Ollama error: ", exc>>)
    ELSE Uncaught(exc)

TimeoutNotice    == Text(<<"[Timeout talking to Ollama]">>)
ErrorNotice(exc) == Text(<<"[Ollama error: ", exc, "]">>)

(* _chat_stream, its except clauses: the fragment the matching clause      *)
(* yields, or <<>> when no clause matches and the exception leaves the     *)
(* generator.                                                              *)
StreamExcept(exc) ==
    IF IsInstance(exc, "Timeout") THEN <<TimeoutNotice>>
    ELSE IF IsInstance(exc, "RequestException") THEN <<ErrorNotice(exc)>>
    ELSE <<>>

(* ------------------------------- /chat -------------------------------- *)

(* _chat_full from its entry to the first read of iter_lines().            *)
CallChatFull(a) ==
    LET post   == PostRaises(ending)
        status == RaiseForStatus(ending)
    IN  /\ freq' = freq
        /\ fargs' = <<a>>
        /\ fpayload' = <<MakePayload(a)>>
        /\ UNCHANGED <<fnext, chunks>>
        /\ IF post # <<>>
           THEN /\ fconn' = fconn
                /\ fout' = <<FullExcept(post[1])>>
                /\ fpc' = "done"
           ELSE IF status # <<>>
           THEN /\ fconn' = WithExit("open")
                /\ fout' = <<FullExcept(status[1])>>
                /\ fpc' = "done"
           ELSE /\ fconn' = "open"
                /\ fout' = fout
                /\ fpc' = "reading"

ChatGet ==
    /\ fpc = "idle"
    /\ freq # <<>>
    /\ freq[1].route = "chat_get"
    /\ CallChatFull(ChatGetArgs(freq[1]))
    /\ UNCHANGED <<lines, ending, streamVars, tagVars>>

ChatPost ==
    /\ fpc = "idle"
    /\ freq # <<>>
    /\ freq[1].route = "chat_post"
    /\ CallChatFull(ChatPostArgs(freq[1]))
    /\ UNCHANGED <<lines, ending, streamVars, tagVars>>

(* iter_lines() delivers a line and the loop body runs on it.              *)
FullReadLine ==
    /\ fpc = "reading"
    /\ fnext < Len(lines)
    /\ LET r == FullProcessLine(lines[fnext + 1]) IN
       /\ fnext' = fnext + 1
       /\ chunks' = IF r.act = "take" THEN Append(chunks, r.v) ELSE chunks
       /\ IF r.act = "raise"
          THEN /\ fconn' = WithExit(fconn)
               /\ fout' = <<FullExcept(r.exc)>>
               /\ fpc' = "done"
          ELSE UNCHANGED <<fconn, fout, fpc>>
    /\ UNCHANGED <<lines, ending, freq, fargs, fpayload, streamVars, tagVars>>

(* iter_lines() is exhausted: the with block is left and the result built. *)
FullEof ==
    /\ fpc = "reading"
    /\ fnext = Len(lines)
    /\ IterLinesRaises(ending) = <<>>
    /\ fconn' = WithExit(fconn)
    /\ fout' = IF Join(chunks) # <<>>
               THEN <<Result(fargs[1], Join(chunks)[1])>>
               ELSE <<FullExcept("TypeError")>>
    /\ fpc' = "done"
    /\ UNCHANGED <<lines, ending, freq, fargs, fpayload, fnext, chunks,
                   streamVars, tagVars>>

(* iter_lines() raises.                                                    *)
FullFault ==
    /\ fpc = "reading"
    /\ fnext = Len(lines)
    /\ IterLinesRaises(ending) # <<>>
    /\ fconn' = WithExit(fconn)
    /\ fout' = <<FullExcept(IterLinesRaises(ending)[1])>>
    /\ fpc' = "done"
    /\ UNCHANGED <<lines, ending, freq, fargs, fpayload, fnext, chunks,
                   streamVars, tagVars>>

(* ------------------------------ /stream ------------------------------- *)

(* stream_get: the generator is created and handed to StreamingResponse;   *)
(* none of its body has run.                                               *)
StreamGet ==
    /\ spc = "idle"
    /\ sreq # <<>>
    /\ sreq[1].route = "stream_get"
    /\ sreq' = sreq
    /\ sargs' = <<StreamGetArgs(sreq[1])>>
    /\ spc' = "created"
    /\ UNCHANGED <<lines, ending, spayload, snext, emitted, sconn, sexc,
                   chatVars, tagVars>>

(* An exception raised in the generator's outer try: a clause yields its   *)
(* notice, or the exception leaves the generator.                          *)
StreamRaised(exc) ==
    IF StreamExcept(exc) # <<>>
    THEN /\ emitted' = Yield(emitted, StreamExcept(exc)[1])
         /\ spc' = "notice"
         /\ sexc' = sexc
    ELSE /\ emitted' = emitted
         /\ spc' = IF exc = "GeneratorExit" THEN "closed" ELSE "crashed"
         /\ sexc' = IF exc = "GeneratorExit" THEN sexc ELSE <<exc>>

(* The first next(): _chat_stream from its entry to the first read of      *)
(* iter_lines().                                                           *)
StreamStart ==
    /\ spc = "created"
    /\ spayload' = <<MakePayload(sargs[1])>>
    /\ LET post   == PostRaises(ending)
           status == RaiseForStatus(ending)
       IN  IF post # <<>>
           THEN /\ sconn' = sconn
                /\ StreamRaised(post[1])
           ELSE IF status # <<>>
           THEN /\ sconn' = WithExit("open")
                /\ StreamRaised(status[1])
           ELSE /\ sconn' = "open"
                /\ spc' = "reading"
                /\ UNCHANGED <<emitted, sexc>>
    /\ UNCHANGED <<lines, ending, sreq, sargs, snext, chatVars, tagVars>>

(* iter_lines() delivers a line and the loop body runs on it, up to the    *)
(* yield when the line holds a fragment.                                   *)
StreamReadLine ==
    /\ spc = "reading"
    /\ snext < Len(lines)
    /\ LET r == StreamProcessLine(lines[snext + 1]) IN
       /\ snext' = snext + 1
       /\ CASE r.act = "skip"  -> UNCHANGED <<emitted, spc, sconn, sexc>>
            [] r.act = "take"  -> /\ emitted' = Yield(emitted, r.v)
                                  /\ spc' = "yielded"
                                  /\ UNCHANGED <<sconn, sexc>>
            [] r.act = "raise" -> /\ sconn' = WithExit(sconn)
                                  /\ StreamRaised(r.exc)
    /\ UNCHANGED <<lines, ending, sreq, sargs, spayload, chatVars, tagVars>>

(* next() on the generator suspended at `yield obj["response"]`.           *)
StreamResume ==
    /\ spc = "yielded"
    /\ spc' = "reading"
    /\ UNCHANGED <<lines, ending, sreq, sargs, spayload, snext, emitted, sconn,
                   sexc, chatVars, tagVars>>

(* iter_lines() is exhausted: the with block is left, the generator ends.  *)
StreamEof ==
    /\ spc = "reading"
    /\ snext = Len(lines)
    /\ IterLinesRaises(ending) = <<>>
    /\ sconn' = WithExit(sconn)
    /\ spc' = "ended"
    /\ UNCHANGED <<lines, ending, sreq, sargs, spayload, snext, emitted, sexc,
                   chatVars, tagVars>>

(* iter_lines() raises.                                                    *)
StreamFault ==
    /\ spc = "reading"
    /\ snext = Len(lines)
    /\ IterLinesRaises(ending) # <<>>
    /\ sconn' = WithExit(sconn)
    /\ StreamRaised(IterLinesRaises(ending)[1])
    /\ UNCHANGED <<lines, ending, sreq, sargs, spayload, snext, chatVars, tagVars>>

(* next() on the generator suspended at the yield of an except clause:     *)
(* the function body ends.                                                 *)
StreamFinish ==
    /\ spc = "notice"
    /\ spc' = "ended"
    /\ UNCHANGED <<lines, ending, sreq, sargs, spayload, snext, emitted, sconn,
                   sexc, chatVars, tagVars>>

(* The caller is gone: close() on the generator.  Not started, it just     *)
(* ends; suspended at a yield, GeneratorExit is raised there: inside the   *)
(* with block at `yield obj["response"]`, after it at a notice.            *)
ClientClose ==
    /\ spc \in {"created", "yielded", "notice"}
    /\ IF spc = "created"
       THEN /\ spc' = "closed"
            /\ UNCHANGED <<emitted, sconn, sexc>>
       ELSE /\ sconn' = IF spc = "yielded" THEN WithExit(sconn) ELSE sconn
            /\ StreamRaised("GeneratorExit")
    /\ UNCHANGED <<lines, ending, sreq, sargs, spayload, snext, chatVars, tagVars>>


(* -------------------------- upstream tags call ------------------------- *)
(* The scripted answer to GET /api/tags: how the call ends ("ok",          *)
(* "refused", "timeout", "bad_status") and, for "ok", the body: not JSON,  *)
(* a JSON array, or a JSON object whose key "models" is absent, null or a  *)
(* list.  An entry of the list is an object whose "name" is missing or     *)
(* null (<<>>) or a text (<<"">>, <<"a">>), or it is no object (a number). *)

Entry(obj, name) == [obj |-> obj, name |-> name]
EntrySet ==
    { Entry(TRUE, n) : n \in { <<>>, <<"">>, <<"a">>, <<"b">> } }
    \cup { Entry(FALSE, <<>>) }

Body(k, models, entries) == [k |-> k, models |-> models, entries |-> entries]
BodySet ==
    { Body("notjson", "absent", <<>>), Body("array", "absent", <<>>),
      Body("object", "absent", <<>>), Body("object", "null", <<>>) }
    \cup { Body("object", "list", es) : es \in SeqUpTo(EntrySet, MaxModels) }

TagScript(end, body) == [end |-> end, body |-> body]
TagScripts ==
    { TagScript("ok", b) : b \in BodySet }
    \cup { TagScript(e, Body("notjson", "absent", <<>>)) :
             e \in {"refused", "timeout", "bad_status"} }

(* requests.get(f"{OLLAMA_URL}/api/tags", timeout=...)                     *)
GetRaises(t) ==
    CASE t.end = "refused" -> <<"ConnectionError">>
      [] t.end = "timeout" -> <<"ReadTimeout">>
      [] OTHER             -> <<>>

(* r.raise_for_status()                                                    *)
TagsRaiseForStatus(t) == IF t.end = "bad_status" THEN <<"HTTPError">> ELSE <<>>

(* data = r.json(): requests (2.27 and later) raises its own JSONDecodeError, *)
(* an InvalidJSONError and so a RequestException, for a body that is not   *)
(* JSON.                                                                   *)
ResponseJson(t) == IF t.body.k = "notjson" THEN <<"RequestsJSONDecodeError">> ELSE <<>>

(* [m.get("name") for m in data.get("models", []) if m.get("name")]:       *)
(* the exception it raises, or <<>>.                                       *)
NamesRaises(b) ==
    IF b.k # "object" THEN <<"AttributeError">>
    ELSE IF b.models = "null" THEN <<"TypeError">>
    ELSE IF \E i \in 1..Len(b.entries) : ~b.entries[i].obj THEN <<"AttributeError">>
    ELSE <<>>

(* the list it builds when it raises nothing                               *)
Truthy(n) == n # <<>> /\ n[1] # ""
Names(b) ==
    LET named == SelectSeq(b.entries, LAMBDA m : Truthy(m.name))
    IN  [i \in 1..Len(named) |-> named[i].name[1]]

(* The try body shared by models() and health(): the exception that leaves *)
(* it, or <<>>.                                                            *)
TagsTryRaises(t) ==
    IF GetRaises(t) # <<>> THEN GetRaises(t)
    ELSE IF TagsRaiseForStatus(t) # <<>> THEN TagsRaiseForStatus(t)
    ELSE IF ResponseJson(t) # <<>> THEN ResponseJson(t)
    ELSE NamesRaises(t.body)

Answer(kind, status, names, raw, error) ==
    [kind |-> kind, status |-> status, names |-> names, raw |-> raw, error |-> error]

(* GET /models                                                             *)
ModelsAnswer(t) ==
    LET e == TagsTryRaises(t) IN
    IF e = <<>> THEN Answer("result", 200, <<Names(t.body)>>, <<t.body>>, <<>>)
    ELSE IF IsInstance(e[1], "RequestException")
    THEN Answer("http_error", 502, <<>>, <<>>, <<"Ollama error: ", e[1]>>)
    ELSE Answer("uncaught", 500, <<>>, <<>>, e)

(* GET /health                                                             *)
HealthAnswer(t) ==
    LET e == TagsTryRaises(t) IN
    IF e = <<>> THEN Answer("result", 200, <<Names(t.body)>>, <<>>, <<>>)
    ELSE Answer("json_response", 502, <<>>, <<>>, e)

Models ==
    /\ tags # <<>>
    /\ mout = <<>>
    /\ mout' = <<ModelsAnswer(tags[1])>>
    /\ UNCHANGED <<lines, ending, chatVars, streamVars, tags, hout>>

Health ==
    /\ tags # <<>>
    /\ hout = <<>>
    /\ hout' = <<HealthAnswer(tags[1])>>
    /\ UNCHANGED <<lines, ending, chatVars, streamVars, tags, mout>>

(* ------------------------------ requests ------------------------------ *)

Request(route, model, temperature, top_p, max_tokens) ==
    [route |-> route, prompt |-> "hi", model |-> model,
     temperature |-> temperature, top_p |-> top_p, max_tokens |-> max_tokens]

Bare(route) == Request(route, Raw("absent", ""), Raw("absent", 0),
                       Raw("absent", 0), Raw("absent", 0))

ModelRaws  == { Raw("absent", ""), Raw("null", ""), Raw("given", ""),
                Raw("given", "phi3:mini"), Raw("given", "llama3") }
TempRaws   == { Raw("absent", 0), Raw("null", 0), Raw("given", 0),
                Raw("given", 7), Raw("given", 12) }
TopPRaws   == { Raw("absent", 0), Raw("null", 0), Raw("given", 0),
                Raw("given", 9), Raw("given", 5) }
TokenRaws  == { Raw("absent", 0), Raw("null", 0), Raw("given", 0),
                Raw("given", 512), Raw("given", 64) }

(* A JSON body can hold null; a query string cannot.                       *)
InQuery(S) == { r \in S : r.p # "null" }

PostRequests ==
    { Request("chat_post", m, t, p, n) :
        m \in ModelRaws, t \in TempRaws, p \in TopPRaws, n \in TokenRaws }
GetRequests(route) ==
    { Request(route, m, t, p, n) :
        m \in InQuery(ModelRaws), t \in InQuery(TempRaws),
        p \in InQuery(TopPRaws), n \in InQuery(TokenRaws) }

(* ---------------------------- specifications -------------------------- *)

Idle ==
    /\ fpc = "idle" /\ fargs = <<>> /\ fpayload = <<>> /\ fnext = 0
    /\ chunks = <<>> /\ fconn = "none" /\ fout = <<>>
    /\ spc = "idle" /\ sargs = <<>> /\ spayload = <<>> /\ snext = 0
    /\ emitted = <<>> /\ sconn = "none" /\ sexc = <<>>
    /\ mout = <<>> /\ hout = <<>>

Init ==
    /\ \/ /\ lines \in SeqUpTo(LineSet, MaxLines)
          /\ ending \in LateEndings
       \/ /\ lines = <<>>
          /\ ending \in EarlyEndings
    /\ freq \in { <<Bare("chat_get")>>, <<Bare("chat_post")>> }
    /\ sreq = <<Bare("stream_get")>>
    /\ tags = <<>>
    /\ Idle

Next ==
    \/ ChatGet
    \/ ChatPost
    \/ FullReadLine
    \/ FullEof
    \/ FullFault
    \/ StreamGet
    \/ StreamStart
    \/ StreamReadLine
    \/ StreamResume
    \/ StreamEof
    \/ StreamFault
    \/ StreamFinish
    \/ ClientClose

Spec == Init /\ [][Next]_vars

InitParams ==
    /\ lines = << ObjText(<<"a">>) >>
    /\ ending \in {"eof", "broken"}
    /\ \/ /\ freq \in { <<r>> : r \in PostRequests \cup GetRequests("chat_get") }
          /\ sreq = <<>>
       \/ /\ freq = <<>>
          /\ sreq \in { <<r>> : r \in GetRequests("stream_get") }
    /\ tags = <<>>
    /\ Idle

SpecParams == InitParams /\ [][Next]_vars

InitModels ==
    /\ lines = <<>>
    /\ ending = "eof"
    /\ freq = <<>>
    /\ sreq = <<>>
    /\ tags \in { <<t>> : t \in TagScripts }
    /\ Idle

NextModels ==
    \/ Models
    \/ Health

SpecModels == InitModels /\ [][NextModels]_vars


(* ============================== properties ============================ *)

(* The upstream contract: a line carries a fragment when it is a JSON      *)
(* object with a key "response"; the fragment is the value under it.       *)
CarriesFragment(line) == line.k = "json" /\ line.t = "object" /\ line.has

FragmentsOf(ls) ==
    LET sel == SelectSeq(ls, CarriesFragment)
    IN  [i \in 1..Len(sel) |-> Val(sel[i].str, sel[i].s)]

TextOf(ls) == Concat(Texts(FragmentsOf(ls)))

TextLines      == { ObjText(s) : s \in FragTexts }
MalformedLines == { EmptyLine, NotJsonLine, BadUtf8Line }
NoFragmentJson == { ObjNoResp, NumberLine, NullLine } \cup
                  { StrLine(h) : h \in BOOLEAN } \cup { ArrLine(h) : h \in BOOLEAN }

AllIn(ls, S) == \A i \in 1..Len(ls) : ls[i] \in S

TimeoutEndings == {"connect_timeout", "header_timeout", "stall"}

Notices ==
    { TimeoutNotice } \cup
    { ErrorNotice(e) : e \in {"ConnectTimeout", "ReadTimeout", "ConnectionError",
                              "HTTPError", "ChunkedEncodingError"} }

ChatOver     == fpc = "done"
ChatReturned == fpc = "done" /\ fout[1].kind = "result"
StreamOver   == spc \in {"ended", "crashed", "closed"}

C2_MalformedDropped ==
    (AllIn(lines, TextLines \cup MalformedLines) /\ ending = "eof") =>
        /\ ChatOver => /\ ChatReturned
                       /\ fout[1].response = <<TextOf(lines)>>
        /\ spc # "crashed"
        /\ spc = "ended" => emitted = FragmentsOf(lines)

(* C3: an upstream script made of text fragments and of JSON lines that    *)
(* carry no 'response' fragment (an object without the key, a number, a    *)
(* string, a list, null) is served as if those lines were absent.          *)
C3_NoFragmentIgnored ==
    (AllIn(lines, TextLines \cup NoFragmentJson) /\ ending = "eof") =>
        /\ ChatOver => /\ ChatReturned
                       /\ fout[1].response = <<TextOf(lines)>>
        /\ spc # "crashed"
        /\ spc = "ended" => emitted = FragmentsOf(lines)

(* C4: when the upstream call fails, before or after some fragments, the   *)
(* relay yields the fragments read so far, then exactly one more fragment, *)
(* and ends normally: the timeout notice when the failure is a connect or  *)
(* read timeout (a stalled body included), an error text otherwise.        *)
C4_StreamFailureNotice ==
    (ending # "eof" /\ AllIn(lines, TextLines) /\ spc \in {"notice", "ended"}) =>
        /\ sexc = <<>>
        /\ Len(emitted) = Len(lines) + 1
        /\ SubSeq(emitted, 1, Len(lines)) = FragmentsOf(lines)
        /\ IF ending \in TimeoutEndings
           THEN emitted[Len(emitted)] = TimeoutNotice
           ELSE emitted[Len(emitted)] \in Notices \ {TimeoutNotice}

(* C5: _chat_full returns a result only after end-of-stream; when the      *)
(* upstream call times out or errors, at any point, the request fails with *)
(* 504 for a timeout and 502 otherwise, and carries no response text.      *)
C5_ChatFailureStatus ==
    /\ ChatReturned => ending = "eof" /\ fnext = Len(lines)
    /\ (ChatOver /\ ending # "eof" /\ AllIn(lines, TextLines)) =>
           /\ fout[1].kind = "http_error"
           /\ fout[1].status = IF ending \in TimeoutEndings THEN 504 ELSE 502
           /\ fout[1].response = <<>>

(* C6: at every point of a /stream request the fragments yielded so far    *)
(* are the fragments of the upstream lines read so far, in arrival order,  *)
(* one yield per fragment; the only other thing ever yielded is one final  *)
(* notice.                                                                 *)
C6_StreamInArrivalOrder ==
    LET up == SelectSeq(emitted, LAMBDA v : v \notin Notices) IN
    /\ up = FragmentsOf(SubSeq(lines, 1, snext))
    /\ Len(emitted) <= Len(up) + 1
    /\ Len(emitted) = Len(up) + 1 => emitted[Len(emitted)] \in Notices
    /\ spc = "yielded" => /\ snext > 0
                          /\ CarriesFragment(lines[snext])
                          /\ emitted[Len(emitted)] = Val(lines[snext].str, lines[snext].s)

C6_Witness ==
    /\ spc = "yielded"
    /\ Len(emitted) = 2
    /\ emitted[1] # emitted[2]
    /\ emitted = FragmentsOf(lines)

(* C10: no request is over with its upstream generate connection still     *)
(* open, whichever way it ended: end of stream, upstream failure, an       *)
(* exception on a line, or the caller closing the generator at a yield.    *)
C10_ConnectionReleased ==
    /\ ChatOver => fconn # "open"
    /\ (StreamOver \/ spc = "notice") => sconn # "open"

C10_Witness ==
    /\ spc = "closed"
    /\ emitted # <<>>
    /\ snext < Len(lines)
    /\ sconn = "released"
    /\ ChatOver
    /\ fconn = "released"


(* The parameter contract: a parameter takes its default when the request  *)
(* omits it, holds null for it or gives a falsy value (0, ""), and the     *)
(* request's value otherwise.                                              *)
EffectiveStr(raw, default) ==
    IF raw.p \in {"absent", "null"} \/ raw.v = "" THEN default ELSE raw.v
EffectiveNum(raw, default) ==
    IF raw.p \in {"absent", "null"} \/ raw.v = 0 THEN default ELSE raw.v

ContractArgs(req) ==
    Args(req.prompt,
         EffectiveStr(req.model, "phi3:mini"),
         EffectiveNum(req.temperature, 7),
         EffectiveNum(req.top_p, 9),
         EffectiveNum(req.max_tokens, 512))

ContractPayload(req) ==
    LET a == ContractArgs(req) IN
    [model |-> a.model, prompt |-> a.prompt,
     options |-> [temperature |-> a.temperature, top_p |-> a.top_p,
                  num_predict |-> a.max_tokens]]

(* C7: for POST /chat the arguments of _chat_full follow the parameter     *)
(* contract, the upstream payload carries them with num_predict equal to   *)
(* the effective max_tokens, and the result echoes them.                   *)
C7_PostDefaults ==
    (freq # <<>> /\ freq[1].route = "chat_post" /\ fpc # "idle") =>
        /\ fargs = <<ContractArgs(freq[1])>>
        /\ fpayload = <<ContractPayload(freq[1])>>
        /\ fpayload[1].options.num_predict = fargs[1].max_tokens
        /\ ChatReturned => fout[1].echo = fargs

C7_Witness ==
    /\ freq # <<>>
    /\ freq[1].route = "chat_post"
    /\ freq[1].model = Raw("given", "")
    /\ freq[1].temperature = Raw("given", 0)
    /\ freq[1].top_p = Raw("null", 0)
    /\ freq[1].max_tokens = Raw("given", 64)
    /\ ChatReturned
    /\ fout[1].echo = <<Args("hi", "phi3:mini", 7, 9, 64)>>
    /\ fpayload[1].options.num_predict = 64

(* C8: GET /chat and GET /stream follow the same parameter contract as     *)
(* POST /chat, so that the same values give the same upstream payload.     *)
C8_GetSameAsPost ==
    /\ (freq # <<>> /\ freq[1].route = "chat_get" /\ fpc # "idle") =>
           fpayload = <<ContractPayload(freq[1])>>
    /\ (sreq # <<>> /\ spayload # <<>>) =>
           spayload = <<ContractPayload(sreq[1])>>

(* The expected shape of the tags body: an object whose "models" is a list *)
(* of objects.                                                             *)
WellFormed(t) ==
    /\ t.end = "ok"
    /\ t.body.k = "object"
    /\ t.body.models = "list"
    /\ \A i \in 1..Len(t.body.entries) : t.body.entries[i].obj

IllFormed(t) ==
    \/ t.end # "ok"
    \/ t.body.k # "object"
    \/ t.body.models = "null"
    \/ \E i \in 1..Len(t.body.entries) : ~t.body.entries[i].obj

(* C9: GET /models answers every failure of the tags call, a body of the   *)
(* wrong shape included, with 502 and an error message, and a well-formed  *)
(* body with {names, raw}, names being [] for an empty list.               *)
C9_ModelsAnswers ==
    mout # <<>> =>
        /\ WellFormed(tags[1]) =>
               /\ mout[1].status = 200
               /\ mout[1].raw = <<tags[1].body>>
               /\ mout[1].names # <<>>
               /\ tags[1].body.entries = <<>> => mout[1].names = << <<>> >>
        /\ IllFormed(tags[1]) =>
               /\ mout[1].status = 502
               /\ mout[1].error # <<>>

====
